---------------------------- MODULE Spec2Model ----------------------------
(***************************************************************************)
(* Model of src/src/worker_thread.cpp: IWorkerThread (Start, Stop,         *)
(* IsRunning and the thread body IWorkerThread::Thread) and the shared     *)
(* WorkerThreadSynch object (counters, clean-stop votes, the two polling   *)
(* barriers).                                                              *)
(*                                                                         *)
(* One controller thread calls Start and Stop on the workers, one call at  *)
(* a time; callerPc[w] is its position inside a call on worker w.  Each    *)
(* worker has at most one thread.  The external stop flag is one           *)
(* controller-owned bool shared by all workers; it is raised from outside  *)
(* the controller thread (a user cancel) at any moment.                    *)
(* A call into the synch object is two steps: AutoMUTEX takes the mutex,   *)
(* then the critical section runs and releases it.  A barrier poll that    *)
(* does not decide releases the mutex and stays where it is (Sleep(100),   *)
(* loop).  WorkerThreadSynch::Reset takes no mutex.                        *)
(***************************************************************************)
EXTENDS Naturals, Sequences, FiniteSets

\* The workers sharing the controller and the synch object.
Workers == {1, 2}

\* Bound on the thread runs counted by one WorkerThreadSynch between Resets.
MaxStarts == 2

\* What the implementer hooks can do.
SetupOutcomes == {"true", "false", "throw"}
TickOutcomes == {"true", "false", "throw"}
HookOutcomes == {"return", "throw"}

VARIABLES
    \* IWorkerThread fields, per worker
    m_thread,                   \* TRUE: the handle is non-null
    m_externalStopSignalFlag,   \* TRUE: the pointer is non-null
    m_internalSignalStopFlag,
    m_signalStopFlags,          \* the flags the vector points to, in order
    m_workerThreadSynch,        \* TRUE: a synch object is attached
    m_startedEvent,
    m_stoppedEvent,
    \* the controller-owned bool that Start() is given a reference to
    externalStopSignalFlag,
    \* WorkerThreadSynch fields
    m_mutex,                    \* 0: not owned, otherwise the owning worker's thread
    m_threadsStartedCounter,
    m_threadsReadyToStopCounter,
    m_threadCleanStops,
    \* IWorkerThread::Thread, per worker: position and the local stoppingCleanly
    pc,
    stoppingCleanly,
    \* the caller's position inside Start()/Stop(), per worker
    callerPc,
    \* TRUE once an exception has left a thread function (the process ends)
    escaped,
    \* history of the current run, per worker
    startResult,        \* outcome of the latest Start() call
    stopReturned,       \* a Stop() call has returned since the latest Start()
    stoppedAgain,       \* and another Stop() call has followed it
    setupResult,        \* outcome of DoStart in the latest thread run
    tickResult,         \* how a DoPeriodicCheck of the run failed, if one did
    stopImminentCalls,  \* StopImminent calls of the latest thread run
    doStopCalls,        \* DoStop calls of the latest thread run
    \* calls the latest thread run made on the synch object, per worker
    threadStartingCalls,            \* ThreadStarting()
    threadStoppingCleanlyCalls,     \* ThreadStoppingCleanly(clean)
    threadReadyForStopCalls,        \* ThreadReadyForStop()
    allCleanResult,     \* what BlockUntil_AllThreadsStoppingCleanly() returned
    \* TRUE when some Start() since the last Reset() did not return true
    runHadFailedStart

workerVars == <<m_thread, m_externalStopSignalFlag, m_internalSignalStopFlag,
                m_signalStopFlags, m_workerThreadSynch, m_startedEvent,
                m_stoppedEvent>>
synchFields == <<m_threadsStartedCounter, m_threadsReadyToStopCounter,
                 m_threadCleanStops>>
synchVars == <<m_mutex, synchFields>>
callVars == <<startResult, stopReturned, stoppedAgain, setupResult, tickResult,
              stopImminentCalls, doStopCalls, runHadFailedStart>>
synchCallVars == <<threadStartingCalls, threadStoppingCleanlyCalls,
                   threadReadyForStopCalls, allCleanResult>>
histVars == <<callVars, synchCallVars>>
vars == <<workerVars, externalStopSignalFlag, synchVars, pc, stoppingCleanly,
          callerPc, escaped, histVars>>

\* IWorkerThread::IWorkerThread and WorkerThreadSynch::WorkerThreadSynch
Init ==
    /\ m_thread = [w \in Workers |-> FALSE]
    /\ m_externalStopSignalFlag = [w \in Workers |-> FALSE]
    /\ m_internalSignalStopFlag = [w \in Workers |-> FALSE]
    /\ m_signalStopFlags = [w \in Workers |-> <<>>]
    /\ m_workerThreadSynch = [w \in Workers |-> FALSE]
    /\ m_startedEvent = [w \in Workers |-> FALSE]
    /\ m_stoppedEvent = [w \in Workers |-> TRUE]
    /\ externalStopSignalFlag = FALSE
    /\ m_mutex = 0
    /\ m_threadsStartedCounter = 0
    /\ m_threadsReadyToStopCounter = 0
    /\ m_threadCleanStops = <<>>
    /\ pc = [w \in Workers |-> "none"]
    /\ stoppingCleanly = [w \in Workers |-> FALSE]
    /\ callerPc = [w \in Workers |-> "idle"]
    /\ escaped = FALSE
    /\ startResult = [w \in Workers |-> "none"]
    /\ stopReturned = [w \in Workers |-> FALSE]
    /\ stoppedAgain = [w \in Workers |-> FALSE]
    /\ setupResult = [w \in Workers |-> "none"]
    /\ tickResult = [w \in Workers |-> "none"]
    /\ stopImminentCalls = [w \in Workers |-> 0]
    /\ doStopCalls = [w \in Workers |-> 0]
    /\ threadStartingCalls = [w \in Workers |-> 0]
    /\ threadStoppingCleanlyCalls = [w \in Workers |-> 0]
    /\ threadReadyForStopCalls = [w \in Workers |-> 0]
    /\ allCleanResult = [w \in Workers |-> "none"]
    /\ runHadFailedStart = FALSE

----------------------------------------------------------------------------
\* Pure helpers

\* the bool a pointer of m_signalStopFlags points to
FlagValue(w, f) == IF f = "internal" THEN m_internalSignalStopFlag[w]
                                     ELSE externalStopSignalFlag

\* TestBoolArray(GetSignalStopFlags()): the OR of the flags of the vector
TestBoolArray(w) ==
    \E i \in 1..Len(m_signalStopFlags[w]) : FlagValue(w, m_signalStopFlags[w][i])

\* mutant of StartTestBoolArray: the internal flag is tested as the previous
\* Stop() left it (line 75 comes too late)
M_StartTestBoolArray(w) == m_internalSignalStopFlag[w] \/ externalStopSignalFlag

\* TestBoolArray(GetSignalStopFlags()) at line 82 of Start(): the internal
\* flag was cleared at line 75 and the vector rebuilt at lines 78-80
StartTestBoolArray(w) ==
    \E f \in {"internal", "external"} :
        IF f = "internal" THEN FALSE ELSE externalStopSignalFlag

\* IWorkerThread::IsRunning
IsRunning(w) == m_startedEvent[w] /\ ~m_stoppedEvent[w]

\* the loop of BlockUntil_AllThreadsStoppingCleanly over m_threadCleanStops
HasUncleanStop ==
    \E i \in 1..Len(m_threadCleanStops) : m_threadCleanStops[i] = FALSE

\* allThreadsReporting in BlockUntil_AllThreadsStoppingCleanly
AllThreadsVoted == Len(m_threadCleanStops) = m_threadsStartedCounter

\* allThreadsReporting in BlockUntil_AllThreadsReadyToStop
AllThreadsReady == m_threadsReadyToStopCounter = m_threadsStartedCounter

\* the controller thread is not inside Start() or Stop()
ControllerIdle == \A v \in Workers : callerPc[v] = "idle"

\* a thread of the worker exists and has not returned
ThreadAlive(w) == pc[w] \notin {"none", "returned"}

\* the places of IWorkerThread::Thread that call into the synch object; each
\* call opens with AutoMUTEX lock(m_mutex)
LockedSections == {"ThreadStarting", "ThreadStoppingCleanly",
                   "BlockUntil_AllThreadsStoppingCleanly", "ThreadReadyForStop",
                   "BlockUntil_AllThreadsReadyToStop"}

\* assert(m_threadCleanStops.size() < m_threadsStartedCounter), line 278
ThreadStoppingCleanlyAssert == Len(m_threadCleanStops) < m_threadsStartedCounter

\* assert(m_threadsReadyToStopCounter < m_threadsStartedCounter), line 313
ThreadReadyForStopAssert == m_threadsReadyToStopCounter < m_threadsStartedCounter

----------------------------------------------------------------------------
\* IWorkerThread::Thread, one step per statement that touches shared state

\* AutoMUTEX lock(m_mutex) at lines 271, 277, 290, 312 and 324: the thread of
\* worker w waits until the mutex is not owned and then owns it
AutoMUTEX(w) ==
    /\ ~escaped
    /\ m_workerThreadSynch[w]
    /\ pc[w] \in LockedSections
    /\ m_mutex = 0
    /\ m_mutex' = w
    /\ UNCHANGED <<workerVars, externalStopSignalFlag, synchFields, pc,
                   stoppingCleanly, callerPc, escaped, histVars>>

\* lines 154-157 and 269-273: announce the thread to the synch object, if
\* any, under the mutex
ThreadStarting(w) ==
    /\ ~escaped
    /\ pc[w] = "ThreadStarting"
    /\ IF m_workerThreadSynch[w]
          THEN /\ m_mutex = w
               /\ m_threadsStartedCounter' = m_threadsStartedCounter + 1
               /\ m_mutex' = 0
               /\ threadStartingCalls' = [threadStartingCalls EXCEPT ![w] = @ + 1]
          ELSE UNCHANGED <<m_mutex, m_threadsStartedCounter, threadStartingCalls>>
    /\ pc' = [pc EXCEPT ![w] = "TestFlags"]
    /\ UNCHANGED <<workerVars, externalStopSignalFlag, m_threadsReadyToStopCounter,
                   m_threadCleanStops, stoppingCleanly, callerPc, escaped, callVars,
                   threadStoppingCleanlyCalls, threadReadyForStopCalls,
                   allCleanResult>>

\* mutant of ThreadTestFlags: the Abort leaves the body by the shortest way,
\* past the vote of line 206
M_ThreadTestFlags(w) ==
    /\ ~escaped
    /\ pc[w] = "TestFlags"
    /\ pc' = [pc EXCEPT ![w] = IF TestBoolArray(w) THEN "DoStop" ELSE "DoStart"]
    /\ UNCHANGED <<workerVars, externalStopSignalFlag, synchVars, stoppingCleanly,
                   callerPc, escaped, histVars>>

\* lines 164-167: throw Abort() inside the try when a stop flag is already
\* raised; the catch(...) falls through with stoppingCleanly still false
ThreadTestFlags(w) ==
    /\ ~escaped
    /\ pc[w] = "TestFlags"
    /\ pc' = [pc EXCEPT ![w] = IF TestBoolArray(w) THEN "ThreadStoppingCleanly"
                                                   ELSE "DoStart"]
    /\ UNCHANGED <<workerVars, externalStopSignalFlag, synchVars, stoppingCleanly,
                   callerPc, escaped, histVars>>

\* mutant of ThreadDoStart: the result of DoStart is not looked at and the
\* started event is set whatever it was
M_ThreadDoStart(w, r) ==
    /\ ~escaped
    /\ pc[w] = "DoStart"
    /\ setupResult' = [setupResult EXCEPT ![w] = r]
    /\ pc' = [pc EXCEPT ![w] = "SetStarted"]
    /\ UNCHANGED <<workerVars, externalStopSignalFlag, synchVars, stoppingCleanly,
                   callerPc, escaped, startResult, stopReturned, stoppedAgain,
                   tickResult,
                   stopImminentCalls, doStopCalls, runHadFailedStart,
                   synchCallVars>>

\* line 169: bool success = DoStart(); a throw is caught at line 198
ThreadDoStart(w, r) ==
    /\ ~escaped
    /\ pc[w] = "DoStart"
    /\ setupResult' = [setupResult EXCEPT ![w] = r]
    /\ pc' = [pc EXCEPT ![w] = IF r = "true" THEN "SetStarted"
                                             ELSE "ThreadStoppingCleanly"]
    /\ UNCHANGED <<workerVars, externalStopSignalFlag, synchVars, stoppingCleanly,
                   callerPc, escaped, startResult, stopReturned, stoppedAgain,
                   tickResult,
                   stopImminentCalls, doStopCalls, runHadFailedStart,
                   synchCallVars>>

\* lines 171-174: SetEvent(m_startedEvent)
ThreadSetStarted(w) ==
    /\ ~escaped
    /\ pc[w] = "SetStarted"
    /\ m_startedEvent' = [m_startedEvent EXCEPT ![w] = TRUE]
    /\ pc' = [pc EXCEPT ![w] = "Sleep"]
    /\ UNCHANGED <<m_thread, m_externalStopSignalFlag, m_internalSignalStopFlag,
                   m_signalStopFlags,
                   m_workerThreadSynch, m_stoppedEvent, externalStopSignalFlag,
                   synchVars, stoppingCleanly, callerPc, escaped, histVars>>

\* mutant of ThreadSleepTestFlags: the break of line 185 is missing, the
\* iteration goes on to DoPeriodicCheck with the stop already noted
M_ThreadSleepTestFlagsNoBreak(w) ==
    /\ ~escaped
    /\ pc[w] = "Sleep"
    /\ stoppingCleanly' = [stoppingCleanly EXCEPT ![w] = @ \/ TestBoolArray(w)]
    /\ pc' = [pc EXCEPT ![w] = IF stoppingCleanly[w] THEN "ThreadStoppingCleanly"
                                                     ELSE "DoPeriodicCheck"]
    /\ UNCHANGED <<workerVars, externalStopSignalFlag, synchVars, callerPc,
                   escaped, histVars>>

\* mutant of ThreadSleepTestFlags: the loop is left as if a stop had been
\* signalled, whatever the flags say
M_ThreadSleepTestFlags(w) ==
    /\ ~escaped
    /\ pc[w] = "Sleep"
    /\ stoppingCleanly' = [stoppingCleanly EXCEPT ![w] = TRUE]
    /\ pc' = [pc EXCEPT ![w] = "ThreadStoppingCleanly"]
    /\ UNCHANGED <<workerVars, externalStopSignalFlag, synchVars, callerPc,
                   escaped, histVars>>

\* lines 176-186: Sleep(100), then the stop-flag test of the loop
ThreadSleepTestFlags(w) ==
    /\ ~escaped
    /\ pc[w] = "Sleep"
    /\ IF TestBoolArray(w)
          THEN /\ stoppingCleanly' = [stoppingCleanly EXCEPT ![w] = TRUE]
               /\ pc' = [pc EXCEPT ![w] = "ThreadStoppingCleanly"]
          ELSE /\ stoppingCleanly' = stoppingCleanly
               /\ pc' = [pc EXCEPT ![w] = "DoPeriodicCheck"]
    /\ UNCHANGED <<workerVars, externalStopSignalFlag, synchVars, callerPc,
                   escaped, histVars>>

\* lines 189-194: DoPeriodicCheck(); false breaks, a throw is caught at 198
ThreadDoPeriodicCheck(w, r) ==
    /\ ~escaped
    /\ pc[w] = "DoPeriodicCheck"
    /\ tickResult' = [tickResult EXCEPT ![w] = IF r = "true" THEN @ ELSE r]
    /\ pc' = [pc EXCEPT ![w] = IF r = "true" THEN "Sleep"
                                             ELSE "ThreadStoppingCleanly"]
    /\ UNCHANGED <<workerVars, externalStopSignalFlag, synchVars, stoppingCleanly,
                   callerPc, escaped, startResult, stopReturned, stoppedAgain,
                   setupResult,
                   stopImminentCalls, doStopCalls, runHadFailedStart,
                   synchCallVars>>

\* mutant of ThreadStoppingCleanly: the unclean path leaves the function
\* without DoStop
M_ThreadStoppingCleanly(w) ==
    /\ ~escaped
    /\ pc[w] = "ThreadStoppingCleanly"
    /\ IF m_workerThreadSynch[w]
          THEN /\ m_mutex = w
               /\ m_threadCleanStops' =
                     Append(m_threadCleanStops, stoppingCleanly[w])
               /\ m_mutex' = 0
               /\ threadStoppingCleanlyCalls' =
                     [threadStoppingCleanlyCalls EXCEPT ![w] = @ + 1]
               /\ pc' = [pc EXCEPT ![w] =
                     IF stoppingCleanly[w]
                        THEN "BlockUntil_AllThreadsStoppingCleanly"
                        ELSE "SetStopped"]
          ELSE /\ UNCHANGED <<m_mutex, m_threadCleanStops,
                              threadStoppingCleanlyCalls>>
               /\ pc' = [pc EXCEPT ![w] = "DoStop"]
    /\ UNCHANGED <<workerVars, externalStopSignalFlag, m_threadsStartedCounter,
                   m_threadsReadyToStopCounter, stoppingCleanly, callerPc,
                   escaped, callVars, threadStartingCalls,
                   threadReadyForStopCalls, allCleanResult>>

\* lines 204-211 with WorkerThreadSynch::ThreadStoppingCleanly (275-280): the
\* vote is appended under the mutex
ThreadStoppingCleanly(w) ==
    /\ ~escaped
    /\ pc[w] = "ThreadStoppingCleanly"
    /\ IF m_workerThreadSynch[w]
          THEN /\ m_mutex = w
               /\ m_threadCleanStops' =
                     Append(m_threadCleanStops, stoppingCleanly[w])
               /\ m_mutex' = 0
               /\ threadStoppingCleanlyCalls' =
                     [threadStoppingCleanlyCalls EXCEPT ![w] = @ + 1]
               /\ pc' = [pc EXCEPT ![w] =
                     IF stoppingCleanly[w]
                        THEN "BlockUntil_AllThreadsStoppingCleanly"
                        ELSE "DoStop"]
          ELSE /\ UNCHANGED <<m_mutex, m_threadCleanStops,
                              threadStoppingCleanlyCalls>>
               /\ pc' = [pc EXCEPT ![w] = "DoStop"]
    /\ UNCHANGED <<workerVars, externalStopSignalFlag, m_threadsStartedCounter,
                   m_threadsReadyToStopCounter, stoppingCleanly, callerPc,
                   escaped, callVars, threadStartingCalls,
                   threadReadyForStopCalls, allCleanResult>>

\* mutant of BlockUntil_AllThreadsStoppingCleanly: allThreadsReporting ends
\* the loop before the votes are looked at
M_BlockUntil_AllThreadsStoppingCleanly(w) ==
    /\ ~escaped
    /\ pc[w] = "BlockUntil_AllThreadsStoppingCleanly"
    /\ m_mutex = w
    /\ m_mutex' = 0
    /\ IF AllThreadsVoted
          THEN /\ pc' = [pc EXCEPT ![w] = "StopImminent"]
               /\ allCleanResult' = [allCleanResult EXCEPT ![w] = "true"]
          ELSE IF HasUncleanStop
                  THEN /\ pc' = [pc EXCEPT ![w] = "DoStop"]
                       /\ allCleanResult' = [allCleanResult EXCEPT ![w] = "false"]
                  ELSE UNCHANGED <<pc, allCleanResult>>
    /\ UNCHANGED <<workerVars, externalStopSignalFlag, synchFields,
                   stoppingCleanly, callerPc, escaped, callVars,
                   threadStartingCalls, threadStoppingCleanlyCalls,
                   threadReadyForStopCalls>>

\* lines 213 and 283-308: one poll, under the mutex: a single unclean stop
\* returns false; otherwise all threads reporting returns true; otherwise the
\* mutex is released, Sleep(100), and the loop polls again
BlockUntil_AllThreadsStoppingCleanly(w) ==
    /\ ~escaped
    /\ pc[w] = "BlockUntil_AllThreadsStoppingCleanly"
    /\ m_mutex = w
    /\ m_mutex' = 0
    /\ IF HasUncleanStop
          THEN /\ pc' = [pc EXCEPT ![w] = "DoStop"]
               /\ allCleanResult' = [allCleanResult EXCEPT ![w] = "false"]
          ELSE IF AllThreadsVoted
                  THEN /\ pc' = [pc EXCEPT ![w] = "StopImminent"]
                       /\ allCleanResult' = [allCleanResult EXCEPT ![w] = "true"]
                  ELSE UNCHANGED <<pc, allCleanResult>>
    /\ UNCHANGED <<workerVars, externalStopSignalFlag, synchFields,
                   stoppingCleanly, callerPc, escaped, callVars,
                   threadStartingCalls, threadStoppingCleanlyCalls,
                   threadReadyForStopCalls>>

\* line 217: StopImminent(), outside the try block: a throw leaves the thread
ThreadStopImminent(w, r) ==
    /\ ~escaped
    /\ pc[w] = "StopImminent"
    /\ stopImminentCalls' = [stopImminentCalls EXCEPT ![w] = @ + 1]
    /\ IF r = "return"
          THEN /\ pc' = [pc EXCEPT ![w] = "ThreadReadyForStop"]
               /\ escaped' = escaped
          ELSE /\ pc' = pc
               /\ escaped' = TRUE
    /\ UNCHANGED <<workerVars, externalStopSignalFlag, synchVars, stoppingCleanly,
                   callerPc, startResult, stopReturned, stoppedAgain,
                   setupResult, tickResult,
                   doStopCalls, runHadFailedStart, synchCallVars>>

\* mutant of ThreadReadyForStop: the counter is not incremented
M_ThreadReadyForStop(w) ==
    /\ ~escaped
    /\ pc[w] = "ThreadReadyForStop"
    /\ m_mutex = w
    /\ m_mutex' = 0
    /\ threadReadyForStopCalls' = [threadReadyForStopCalls EXCEPT ![w] = @ + 1]
    /\ pc' = [pc EXCEPT ![w] = "BlockUntil_AllThreadsReadyToStop"]
    /\ UNCHANGED <<workerVars, externalStopSignalFlag, synchFields,
                   stoppingCleanly, callerPc, escaped, callVars,
                   threadStartingCalls, threadStoppingCleanlyCalls,
                   allCleanResult>>

\* lines 220 and 310-315: WorkerThreadSynch::ThreadReadyForStop, under the
\* mutex
ThreadReadyForStop(w) ==
    /\ ~escaped
    /\ pc[w] = "ThreadReadyForStop"
    /\ m_mutex = w
    /\ m_threadsReadyToStopCounter' = m_threadsReadyToStopCounter + 1
    /\ m_mutex' = 0
    /\ threadReadyForStopCalls' = [threadReadyForStopCalls EXCEPT ![w] = @ + 1]
    /\ pc' = [pc EXCEPT ![w] = "BlockUntil_AllThreadsReadyToStop"]
    /\ UNCHANGED <<workerVars, externalStopSignalFlag, m_threadsStartedCounter,
                   m_threadCleanStops, stoppingCleanly, callerPc, escaped,
                   callVars, threadStartingCalls, threadStoppingCleanlyCalls,
                   allCleanResult>>

\* lines 221 and 317-336: one poll, under the mutex: all threads reporting
\* ends the wait; otherwise the mutex is released, Sleep(100), and the loop
\* polls again
BlockUntil_AllThreadsReadyToStop(w) ==
    /\ ~escaped
    /\ pc[w] = "BlockUntil_AllThreadsReadyToStop"
    /\ m_mutex = w
    /\ m_mutex' = 0
    /\ pc' = [pc EXCEPT ![w] = IF AllThreadsReady THEN "DoStop" ELSE @]
    /\ UNCHANGED <<workerVars, externalStopSignalFlag, synchFields,
                   stoppingCleanly, callerPc, escaped, histVars>>

\* line 227: DoStop(), outside the try block: a throw leaves the thread
ThreadDoStop(w, r) ==
    /\ ~escaped
    /\ pc[w] = "DoStop"
    /\ doStopCalls' = [doStopCalls EXCEPT ![w] = @ + 1]
    /\ IF r = "return"
          THEN /\ pc' = [pc EXCEPT ![w] = "SetStopped"]
               /\ escaped' = escaped
          ELSE /\ pc' = pc
               /\ escaped' = TRUE
    /\ UNCHANGED <<workerVars, externalStopSignalFlag, synchVars, stoppingCleanly,
                   callerPc, startResult, stopReturned, stoppedAgain,
                   setupResult, tickResult,
                   stopImminentCalls, runHadFailedStart, synchCallVars>>

\* lines 228-230: SetEvent(m_stoppedEvent); return 0
ThreadSetStopped(w) ==
    /\ ~escaped
    /\ pc[w] = "SetStopped"
    /\ m_stoppedEvent' = [m_stoppedEvent EXCEPT ![w] = TRUE]
    /\ pc' = [pc EXCEPT ![w] = "returned"]
    /\ UNCHANGED <<m_thread, m_externalStopSignalFlag, m_internalSignalStopFlag,
                   m_signalStopFlags,
                   m_workerThreadSynch, m_startedEvent, externalStopSignalFlag,
                   synchVars, stoppingCleanly, callerPc, escaped, histVars>>

----------------------------------------------------------------------------
\* IWorkerThread::Start and IWorkerThread::Stop, as executed by the caller

\* threads created with a synch object that have not yet run ThreadStarting
PendingAnnouncements ==
    Cardinality({v \in Workers : pc[v] = "ThreadStarting" /\ m_workerThreadSynch[v]})

\* lines 68-80: the asserts, ResetEvent x2, binding of the flag and the synch
\* object; the history of the previous run is forgotten
StartPrologue(w, s) ==
    /\ ~escaped
    /\ ControllerIdle
    /\ ~m_thread[w]
    /\ ~m_externalStopSignalFlag[w]
    /\ m_startedEvent' = [m_startedEvent EXCEPT ![w] = FALSE]
    /\ m_stoppedEvent' = [m_stoppedEvent EXCEPT ![w] = FALSE]
    /\ m_workerThreadSynch' = [m_workerThreadSynch EXCEPT ![w] = s]
    /\ m_signalStopFlags' =
          [m_signalStopFlags EXCEPT ![w] = <<"internal", "external">>]
    /\ stopReturned' = [stopReturned EXCEPT ![w] = FALSE]
    /\ stoppedAgain' = [stoppedAgain EXCEPT ![w] = FALSE]
    /\ setupResult' = [setupResult EXCEPT ![w] = "none"]
    /\ tickResult' = [tickResult EXCEPT ![w] = "none"]
    /\ stopImminentCalls' = [stopImminentCalls EXCEPT ![w] = 0]
    /\ doStopCalls' = [doStopCalls EXCEPT ![w] = 0]
    /\ threadStartingCalls' = [threadStartingCalls EXCEPT ![w] = 0]
    /\ threadStoppingCleanlyCalls' = [threadStoppingCleanlyCalls EXCEPT ![w] = 0]
    /\ threadReadyForStopCalls' = [threadReadyForStopCalls EXCEPT ![w] = 0]
    /\ allCleanResult' = [allCleanResult EXCEPT ![w] = "none"]

\* lines 82-85: a stop flag is already raised: throw Abort()
StartAbort(w, s) ==
    /\ StartPrologue(w, s)
    /\ StartTestBoolArray(w)
    /\ m_externalStopSignalFlag' = [m_externalStopSignalFlag EXCEPT ![w] = TRUE]
    /\ m_internalSignalStopFlag' = [m_internalSignalStopFlag EXCEPT ![w] = FALSE]
    /\ startResult' = [startResult EXCEPT ![w] = "Abort"]
    /\ runHadFailedStart' = TRUE
    /\ UNCHANGED <<m_thread, externalStopSignalFlag, synchVars, pc,
                   stoppingCleanly, callerPc, escaped>>

\* lines 87 and 97-104: CreateThread succeeds, the caller waits on the events
StartCreateThread(w, s) ==
    /\ StartPrologue(w, s)
    /\ ~StartTestBoolArray(w)
    /\ s => m_threadsStartedCounter + PendingAnnouncements < MaxStarts
    /\ m_externalStopSignalFlag' = [m_externalStopSignalFlag EXCEPT ![w] = TRUE]
    /\ m_internalSignalStopFlag' = [m_internalSignalStopFlag EXCEPT ![w] = FALSE]
    /\ m_thread' = [m_thread EXCEPT ![w] = TRUE]
    /\ pc' = [pc EXCEPT ![w] = "ThreadStarting"]
    /\ stoppingCleanly' = [stoppingCleanly EXCEPT ![w] = FALSE]
    /\ callerPc' = [callerPc EXCEPT ![w] = "StartWait"]
    /\ startResult' = [startResult EXCEPT ![w] = "pending"]
    /\ UNCHANGED <<externalStopSignalFlag, synchVars, escaped, runHadFailedStart>>

\* lines 87-95: CreateThread returns 0: Stop() (no thread to join), throw Error
StartCreateThreadFailed(w, s) ==
    /\ StartPrologue(w, s)
    /\ ~StartTestBoolArray(w)
    /\ m_internalSignalStopFlag' = [m_internalSignalStopFlag EXCEPT ![w] = TRUE]
    /\ m_thread' = [m_thread EXCEPT ![w] = FALSE]
    /\ m_externalStopSignalFlag' = [m_externalStopSignalFlag EXCEPT ![w] = FALSE]
    /\ startResult' = [startResult EXCEPT ![w] = "SpawnFailed"]
    /\ runHadFailedStart' = TRUE
    /\ UNCHANGED <<externalStopSignalFlag, synchVars, pc, stoppingCleanly,
                   callerPc, escaped>>

\* mutant of StartWaitReturn: line 119 is missing, false is returned without
\* Stop()
M_StartWaitReturn(w) ==
    /\ ~escaped
    /\ callerPc[w] = "StartWait"
    /\ m_startedEvent[w] \/ m_stoppedEvent[w]
    /\ callerPc' = [callerPc EXCEPT ![w] = "idle"]
    /\ startResult' = [startResult EXCEPT ![w] =
                          IF m_startedEvent[w] THEN "true" ELSE "false"]
    /\ runHadFailedStart' = (runHadFailedStart \/ ~m_startedEvent[w])
    /\ UNCHANGED <<workerVars, externalStopSignalFlag, synchVars, pc,
                   stoppingCleanly, escaped, stopReturned, stoppedAgain,
                   setupResult, tickResult, stopImminentCalls, doStopCalls,
                   synchCallVars>>

\* lines 100-122: WaitForMultipleObjects returns the lowest signalled index;
\* started first returns true, otherwise Stop() is entered (line 119)
StartWaitReturn(w) ==
    /\ ~escaped
    /\ callerPc[w] = "StartWait"
    /\ m_startedEvent[w] \/ m_stoppedEvent[w]
    /\ IF m_startedEvent[w]
          THEN /\ callerPc' = [callerPc EXCEPT ![w] = "idle"]
               /\ startResult' = [startResult EXCEPT ![w] = "true"]
               /\ m_internalSignalStopFlag' = m_internalSignalStopFlag
          ELSE /\ callerPc' = [callerPc EXCEPT ![w] = "StartStop"]
               /\ startResult' = startResult
               /\ m_internalSignalStopFlag' =
                      [m_internalSignalStopFlag EXCEPT ![w] = TRUE]
    /\ UNCHANGED <<m_thread, m_externalStopSignalFlag, m_signalStopFlags,
                   m_workerThreadSynch,
                   m_startedEvent, m_stoppedEvent, externalStopSignalFlag,
                   synchVars, pc, stoppingCleanly, escaped, stopReturned,
                   stoppedAgain,
                   setupResult, tickResult, stopImminentCalls, doStopCalls,
                   runHadFailedStart, synchCallVars>>

\* lines 106-108: the wait itself fails: Stop() is entered, Error follows
StartWaitFailed(w) ==
    /\ ~escaped
    /\ callerPc[w] = "StartWait"
    /\ callerPc' = [callerPc EXCEPT ![w] = "StartErrorStop"]
    /\ m_internalSignalStopFlag' = [m_internalSignalStopFlag EXCEPT ![w] = TRUE]
    /\ UNCHANGED <<m_thread, m_externalStopSignalFlag, m_signalStopFlags,
                   m_workerThreadSynch,
                   m_startedEvent, m_stoppedEvent, externalStopSignalFlag,
                   synchVars, pc, stoppingCleanly, escaped, histVars>>

\* mutant of Stop: the handle test of line 129 is missing and the join is
\* entered whether or not a thread handle is held
M_Stop(w) ==
    /\ ~escaped
    /\ ControllerIdle
    /\ m_internalSignalStopFlag' = [m_internalSignalStopFlag EXCEPT ![w] = TRUE]
    /\ callerPc' = [callerPc EXCEPT ![w] = "Stop"]
    /\ UNCHANGED <<m_thread, m_externalStopSignalFlag, stopReturned, stoppedAgain>>
    /\ UNCHANGED <<m_workerThreadSynch, m_signalStopFlags, m_startedEvent,
                   m_stoppedEvent, externalStopSignalFlag, synchVars, pc,
                   stoppingCleanly, escaped, startResult, setupResult, tickResult,
                   stopImminentCalls, doStopCalls, runHadFailedStart,
                   synchCallVars>>

\* lines 125-137 when called by the controller: set the internal flag; with no
\* thread handle the rest of Stop() follows at once, otherwise the join starts
Stop(w) ==
    /\ ~escaped
    /\ ControllerIdle
    /\ m_internalSignalStopFlag' = [m_internalSignalStopFlag EXCEPT ![w] = TRUE]
    /\ IF m_thread[w]
          THEN /\ callerPc' = [callerPc EXCEPT ![w] = "Stop"]
               /\ UNCHANGED <<m_thread, m_externalStopSignalFlag, stopReturned,
                              stoppedAgain>>
          ELSE /\ callerPc' = callerPc
               /\ m_thread' = [m_thread EXCEPT ![w] = FALSE]
               /\ m_externalStopSignalFlag' =
                      [m_externalStopSignalFlag EXCEPT ![w] = FALSE]
               /\ stopReturned' = [stopReturned EXCEPT ![w] = TRUE]
               /\ stoppedAgain' = [stoppedAgain EXCEPT ![w] = stopReturned[w]]
    /\ UNCHANGED <<m_workerThreadSynch, m_signalStopFlags, m_startedEvent,
                   m_stoppedEvent, externalStopSignalFlag, synchVars, pc,
                   stoppingCleanly, escaped, startResult, setupResult, tickResult,
                   stopImminentCalls, doStopCalls, runHadFailedStart,
                   synchCallVars>>

\* mutant of ThreadTerminated: the join does not wait for the thread
M_ThreadTerminated(w) == pc[w] # "none"

\* the thread the join of line 131 waits for has terminated
ThreadTerminated(w) == pc[w] = "returned"

\* lines 131-136: WaitForSingleObject(m_thread, INFINITE) returns, the handle
\* and the external flag pointer are cleared; Start() then returns false
\* (line 122) or throws Error (line 112)
StopJoin(w) ==
    /\ ~escaped
    /\ callerPc[w] \in {"Stop", "StartStop", "StartErrorStop"}
    /\ ThreadTerminated(w)
    /\ m_thread' = [m_thread EXCEPT ![w] = FALSE]
    /\ m_externalStopSignalFlag' = [m_externalStopSignalFlag EXCEPT ![w] = FALSE]
    /\ callerPc' = [callerPc EXCEPT ![w] = "idle"]
    /\ CASE callerPc[w] = "Stop" ->
              /\ stopReturned' = [stopReturned EXCEPT ![w] = TRUE]
              /\ UNCHANGED <<startResult, runHadFailedStart>>
         [] callerPc[w] = "StartStop" ->
              /\ startResult' = [startResult EXCEPT ![w] = "false"]
              /\ runHadFailedStart' = TRUE
              /\ UNCHANGED stopReturned
         [] callerPc[w] = "StartErrorStop" ->
              /\ startResult' = [startResult EXCEPT ![w] = "WaitFailed"]
              /\ runHadFailedStart' = TRUE
              /\ UNCHANGED stopReturned
    /\ UNCHANGED <<m_internalSignalStopFlag, m_signalStopFlags,
                   m_workerThreadSynch, m_startedEvent,
                   m_stoppedEvent, externalStopSignalFlag, synchVars, pc,
                   stoppingCleanly, escaped, stoppedAgain, setupResult, tickResult,
                   stopImminentCalls, doStopCalls, synchCallVars>>

----------------------------------------------------------------------------
\* The controller's other moves

\* the controller raises the bool it passed to Start()
RaiseExternalStop ==
    /\ ~escaped
    /\ ~externalStopSignalFlag
    /\ externalStopSignalFlag' = TRUE
    /\ UNCHANGED <<workerVars, synchVars, pc, stoppingCleanly, callerPc, escaped,
                   histVars>>

\* the controller lowers it again between runs, with every worker stopped
ClearExternalStop ==
    /\ ~escaped
    /\ externalStopSignalFlag
    /\ ControllerIdle
    /\ \A w \in Workers : ~m_thread[w]
    /\ externalStopSignalFlag' = FALSE
    /\ UNCHANGED <<workerVars, synchVars, pc, stoppingCleanly, callerPc, escaped,
                   histVars>>

\* mutant of Reset: the vote list is not cleared
M_Reset ==
    /\ ~escaped
    /\ ControllerIdle
    /\ \A w \in Workers : ~ThreadAlive(w)
    /\ m_threadsStartedCounter' = 0
    /\ m_threadsReadyToStopCounter' = 0
    /\ UNCHANGED <<m_mutex, m_threadCleanStops>>
    /\ runHadFailedStart' = FALSE
    /\ UNCHANGED <<workerVars, externalStopSignalFlag, pc, stoppingCleanly,
                   callerPc, escaped, startResult, stopReturned, stoppedAgain,
                   setupResult, tickResult, stopImminentCalls, doStopCalls,
                   synchCallVars>>

\* WorkerThreadSynch::Reset (lines 262-267), called with no participant alive
Reset ==
    /\ ~escaped
    /\ ControllerIdle
    /\ \A w \in Workers : ~ThreadAlive(w)
    /\ m_threadsStartedCounter' = 0
    /\ m_threadsReadyToStopCounter' = 0
    /\ m_threadCleanStops' = <<>>
    /\ UNCHANGED m_mutex
    /\ runHadFailedStart' = FALSE
    /\ UNCHANGED <<workerVars, externalStopSignalFlag, pc, stoppingCleanly,
                   callerPc, escaped, startResult, stopReturned, stoppedAgain,
                   setupResult, tickResult, stopImminentCalls, doStopCalls,
                   synchCallVars>>

----------------------------------------------------------------------------
\* The steps of worker w's thread, given what its hooks may do
ThreadStep(w, setups, ticks, hooks) ==
    \/ AutoMUTEX(w)
    \/ ThreadStarting(w)
    \/ ThreadTestFlags(w)
    \/ \E r \in setups : ThreadDoStart(w, r)
    \/ ThreadSetStarted(w)
    \/ ThreadSleepTestFlags(w)
    \/ \E r \in ticks : ThreadDoPeriodicCheck(w, r)
    \/ ThreadStoppingCleanly(w)
    \/ BlockUntil_AllThreadsStoppingCleanly(w)
    \/ \E r \in hooks : ThreadStopImminent(w, r)
    \/ ThreadReadyForStop(w)
    \/ BlockUntil_AllThreadsReadyToStop(w)
    \/ \E r \in hooks : ThreadDoStop(w, r)
    \/ ThreadSetStopped(w)

\* The calls the controller makes on worker w; synchs says whether a synch
\* object is passed to Start()
CallerStep(w, synchs) ==
    \/ \E s \in synchs : StartAbort(w, s)
    \/ \E s \in synchs : StartCreateThread(w, s)
    \/ StartWaitReturn(w)
    \/ Stop(w)
    \/ StopJoin(w)

\* The failures of the operating system calls inside Start()
FaultStep(w, synchs) ==
    \/ \E s \in synchs : StartCreateThreadFailed(w, s)
    \/ StartWaitFailed(w)

Next ==
    \/ \E w \in Workers : ThreadStep(w, SetupOutcomes, TickOutcomes, HookOutcomes)
    \/ \E w \in Workers : CallerStep(w, BOOLEAN)
    \/ \E w \in Workers : FaultStep(w, BOOLEAN)
    \/ RaiseExternalStop
    \/ ClearExternalStop
    \/ Reset

Spec == Init /\ [][Next]_vars

----------------------------------------------------------------------------
\* Groups of workers that all share the synch object, under the scheduling
\* the code relies on: every thread that can take a step eventually takes it,
\* a thread waiting for the mutex gets it although a polling peer keeps
\* taking and releasing it (the peer sleeps 100 ms between polls), and a
\* caller blocked in WaitForMultipleObjects or WaitForSingleObject returns
\* once what it waits for has happened.  The hooks StopImminent and DoStop
\* return.  What the controller and the user do is not forced.

Fairness(setups, ticks) ==
    /\ \A w \in Workers : SF_vars(ThreadStep(w, setups, ticks, {"return"}))
    /\ \A w \in Workers : WF_vars(StartWaitReturn(w))
    /\ \A w \in Workers : WF_vars(StopJoin(w))

\* any outcome of DoStart and DoPeriodicCheck
GroupNext ==
    \/ \E w \in Workers : ThreadStep(w, SetupOutcomes, TickOutcomes, {"return"})
    \/ \E w \in Workers : CallerStep(w, {TRUE})
    \/ RaiseExternalStop
    \/ ClearExternalStop
    \/ Reset

GroupSpec == Init /\ [][GroupNext]_vars /\ Fairness(SetupOutcomes, TickOutcomes)

\* DoPeriodicCheck always returns true
CleanNext ==
    \/ \E w \in Workers : ThreadStep(w, SetupOutcomes, {"true"}, {"return"})
    \/ \E w \in Workers : CallerStep(w, {TRUE})
    \/ RaiseExternalStop
    \/ ClearExternalStop
    \/ Reset

CleanSpec == Init /\ [][CleanNext]_vars /\ Fairness(SetupOutcomes, {"true"})

----------------------------------------------------------------------------
\* Properties

\* worker w's thread is in the graceful phase: it has run StopImminent
InGracefulPhase(w) ==
    \/ pc[w] \in {"ThreadReadyForStop", "BlockUntil_AllThreadsReadyToStop"}
    \/ pc[w] = "StopImminent" /\ stopImminentCalls[w] > 0

\* C1: if any participant has voted unclean, no participant thread of the run
\* has executed StopImminent or entered BlockUntil_AllThreadsReadyToStop.
\* (Stated for the threads still alive, which all belong to the current run.)
C1_NoGracefulPhaseWithUncleanVote ==
    HasUncleanStop =>
        \A w \in Workers : m_workerThreadSynch[w] => ~InGracefulPhase(w)

\* worker w voted clean and waits in one of the two barriers
WaitingInRendezvous(w) ==
    /\ stoppingCleanly[w]
    /\ pc[w] \in {"BlockUntil_AllThreadsStoppingCleanly",
                  "BlockUntil_AllThreadsReadyToStop"}

\* worker w's thread has run DoStop once, set the stopped event and returned
BodyFinished(w) ==
    /\ pc[w] = "returned"
    /\ doStopCalls[w] = 1
    /\ m_stoppedEvent[w]

\* C2: once some participant has voted unclean, every worker that voted clean
\* and waits in a barrier eventually returns, runs DoStop and sets its stopped
\* event.
C2_UncleanVoteReleasesWaiters ==
    \A w \in Workers :
        (HasUncleanStop /\ WaitingInRendezvous(w)) ~> BodyFinished(w)

\* the external flag has been raised while every worker is in its loop, each
\* Start() having returned true and no Start() of the run having failed
CleanShutdownRequested ==
    /\ externalStopSignalFlag
    /\ ~runHadFailedStart
    /\ \A w \in Workers : /\ startResult[w] = "true"
                          /\ pc[w] \in {"Sleep", "DoPeriodicCheck"}

\* worker w went through the whole clean rendezvous and finished
CleanShutdownDone(w) ==
    /\ stoppingCleanly[w]
    /\ stopImminentCalls[w] = 1
    /\ BodyFinished(w)

\* C3: with DoPeriodicCheck always true and every Start() returned true, once
\* the external flag is raised every worker eventually votes clean, runs
\* StopImminent, passes both barriers, runs DoStop and sets its stopped event.
C3_CleanShutdownTerminates ==
    \A w \in Workers : CleanShutdownRequested ~> CleanShutdownDone(w)

\* C3 witness: both workers of a group have finished a clean shutdown that
\* the external flag requested
C3_Witness ==
    /\ externalStopSignalFlag
    /\ ~runHadFailedStart
    /\ \A w \in Workers : startResult[w] = "true" /\ CleanShutdownDone(w)
    /\ m_threadsReadyToStopCounter = 2

\* Start() on worker w has raised and no other call on w has returned since
StartRaised(w) ==
    /\ callerPc[w] = "idle"
    /\ startResult[w] \in {"Abort", "SpawnFailed", "WaitFailed"}
    /\ ~stopReturned[w]

\* C4: whenever Start() raises (Abort, the CreateThread error, the wait
\* error), the worker is left not-started with everything released: started
\* event clear, stopped event set, thread handle null, external flag pointer
\* cleared.
C4_StartErrorLeavesNotStarted ==
    \A w \in Workers :
        StartRaised(w) =>
            /\ ~m_startedEvent[w]
            /\ m_stoppedEvent[w]
            /\ ~m_thread[w]
            /\ ~m_externalStopSignalFlag[w]

\* Stop() on worker w has returned and no Start() on w has begun since
StopHasReturned(w) == callerPc[w] = "idle" /\ stopReturned[w]

\* the latest Start() on worker w created a thread
BodyExisted(w) == startResult[w] \in {"true", "false", "WaitFailed"}

\* C5: after Stop() returns, IsRunning() is false and the thread handle is
\* null; when a thread existed, it has run DoStop and set the stopped event
\* before Stop() returned.
C5_StopReturnsAfterBodyFinished ==
    \A w \in Workers :
        StopHasReturned(w) =>
            /\ ~IsRunning(w)
            /\ ~m_thread[w]
            /\ BodyExisted(w) => (doStopCalls[w] = 1 /\ m_stoppedEvent[w])

\* C5 witness: Stop() has returned on a worker that was running in a group
\* and went through the rendezvous
C5_Witness ==
    \E w \in Workers :
        /\ StopHasReturned(w)
        /\ startResult[w] = "true"
        /\ m_workerThreadSynch[w]
        /\ stoppingCleanly[w]
        /\ doStopCalls[w] = 1

\* Start() on worker w returned true and neither stop flag has been set since
StartedAndNotAskedToStop(w) ==
    /\ startResult[w] = "true"
    /\ ~m_internalSignalStopFlag[w]
    /\ ~externalStopSignalFlag

\* C6 as stated: after Start() returns true, IsRunning() does not become
\* false while both stop flags are still false, whatever DoPeriodicCheck does.
C6_RunningUntilStopFlag ==
    \A w \in Workers : StartedAndNotAskedToStop(w) => IsRunning(w)

\* C6 amended: after Start() returns true, IsRunning() does not become false
\* while both stop flags are still false and no DoPeriodicCheck has returned
\* false or thrown.
C6_RunningUntilStopFlagOrTickFailure ==
    \A w \in Workers :
        (StartedAndNotAskedToStop(w) /\ tickResult[w] = "none") => IsRunning(w)

\* C6 witness: a started worker, no flag set, about to run DoPeriodicCheck
C6_Witness ==
    \E w \in Workers :
        /\ StartedAndNotAskedToStop(w)
        /\ tickResult[w] = "none"
        /\ pc[w] = "DoPeriodicCheck"
        /\ IsRunning(w)

\* C7: whichever hook throws, the throw does not leave the thread function.
C7_NoThrowLeavesThread == ~escaped

\* C8: a thread run in which DoStart succeeded runs DoStop exactly once, and
\* before its stopped event is set, whatever the exit path.
C8_TeardownExactlyOnce ==
    \A w \in Workers :
        /\ doStopCalls[w] <= 1
        /\ (setupResult[w] = "true" /\ (m_stoppedEvent[w] \/ pc[w] = "SetStopped"))
               => doStopCalls[w] = 1

\* C8 witness: a run whose DoPeriodicCheck threw has finished, in a group
C8_Witness ==
    \E w \in Workers :
        /\ setupResult[w] = "true"
        /\ tickResult[w] = "throw"
        /\ m_workerThreadSynch[w]
        /\ m_stoppedEvent[w]
        /\ doStopCalls[w] = 1

\* DoStart of the latest thread run of worker w returned false or threw
SetupFailed(w) == setupResult[w] \in {"false", "throw"}

\* C9 as stated: if DoStart returns false or throws, the started event is
\* never set during that run and Start() returns false, without raising.
C9_SetupFailureStartReturnsFalse ==
    \A w \in Workers :
        SetupFailed(w) =>
            /\ ~m_startedEvent[w]
            /\ startResult[w] \in {"pending", "false"}

\* C9 amended: if DoStart returns false or throws, the started event is never
\* set during that run and Start() returns false, or raises the wait error
\* when WaitForMultipleObjects itself fails.
C9_SetupFailureStartFalseOrWaitError ==
    \A w \in Workers :
        SetupFailed(w) =>
            /\ ~m_startedEvent[w]
            /\ startResult[w] \in {"pending", "false", "WaitFailed"}

\* C9 witness: DoStart threw in a group and Start() has returned false
C9_Witness ==
    \E w \in Workers :
        /\ setupResult[w] = "throw"
        /\ m_workerThreadSynch[w]
        /\ callerPc[w] = "idle"
        /\ startResult[w] = "false"
        /\ ~m_startedEvent[w]

\* C10: Start() called with the external flag already true throws Abort
\* without creating a thread: no DoStart, no DoStop, the synch object's
\* counters and votes unchanged, and the worker remains not-started.
C10_AbortedStartChangesNothing ==
    [][\A w \in Workers :
          (\E s \in BOOLEAN : StartAbort(w, s)) =>
              /\ pc' = pc
              /\ ~m_thread'[w]
              /\ setupResult'[w] = "none"
              /\ doStopCalls'[w] = 0
              /\ synchVars' = synchVars
              /\ ~m_startedEvent'[w]
              /\ m_stoppedEvent'[w]]_vars

----------------------------------------------------------------------------
\* the thread of worker w announced itself to the synch object in this run
Participant(w) == threadStartingCalls[w] = 1

\* the thread of worker w is past the call of line 206
PastCleanVote(w) ==
    pc[w] \in {"BlockUntil_AllThreadsStoppingCleanly", "StopImminent",
               "ThreadReadyForStop", "BlockUntil_AllThreadsReadyToStop",
               "DoStop", "SetStopped", "returned"}

\* C11: each participating thread calls ThreadStoppingCleanly exactly once on
\* every exit path (none before the end of its try block, one from there on),
\* and calls ThreadReadyForStop at most once and only after it voted clean
\* and BlockUntil_AllThreadsStoppingCleanly returned true.
C11_OneVoteAndReadyOnlyOnCleanPath ==
    \A w \in Workers :
        /\ threadStartingCalls[w] <= 1
        /\ threadStoppingCleanlyCalls[w] <= threadStartingCalls[w]
        /\ (Participant(w) /\ ThreadAlive(w) /\ ~PastCleanVote(w))
               => threadStoppingCleanlyCalls[w] = 0
        /\ (Participant(w) /\ PastCleanVote(w))
               => threadStoppingCleanlyCalls[w] = 1
        /\ threadReadyForStopCalls[w] <= 1
        /\ threadReadyForStopCalls[w] = 1
               => /\ threadStoppingCleanlyCalls[w] = 1
                  /\ stoppingCleanly[w]
                  /\ allCleanResult[w] = "true"

\* C11 witness: one participant has finished after an Abort before DoStart
\* and one vote, another has announced ready after the true return
C11_Witness ==
    /\ \E w \in Workers :
          /\ Participant(w)
          /\ pc[w] = "returned"
          /\ setupResult[w] = "none"
          /\ threadStoppingCleanlyCalls[w] = 1
          /\ threadReadyForStopCalls[w] = 0
    /\ \E w \in Workers :
          /\ Participant(w)
          /\ allCleanResult[w] = "true"
          /\ threadReadyForStopCalls[w] = 1

----------------------------------------------------------------------------
\* C12: Stop() called again right after a Stop() that returned, from whatever
\* state the first call found the worker in, changes nothing: the internal
\* flag, the thread handle, the external flag pointer, the events and the
\* synch object stay as the first call left them, and the call returns at
\* once (the controller is not left inside a join).
C12_StopTwiceIsStopOnce ==
    [][\A w \in Workers :
          (StopHasReturned(w) /\ Stop(w)) =>
              /\ workerVars' = workerVars
              /\ synchVars' = synchVars
              /\ pc' = pc
              /\ callerPc' = callerPc
              /\ m_internalSignalStopFlag'[w]
              /\ ~m_thread'[w]
              /\ ~m_externalStopSignalFlag'[w]]_vars

\* C12 witness: a second Stop() has returned on a worker whose first Stop()
\* joined a running thread
C12_Witness ==
    \E w \in Workers :
        /\ stoppedAgain[w]
        /\ StopHasReturned(w)
        /\ startResult[w] = "true"
        /\ pc[w] = "returned"

----------------------------------------------------------------------------
\* a run of worker w has ended and a Stop() on w has returned since
FullyStopped(w) == StopHasReturned(w) /\ BodyExisted(w)

\* the controller's step is a call of Start() on worker w
StartCalled(w) ==
    \E s \in BOOLEAN : \/ StartAbort(w, s)
                        \/ StartCreateThread(w, s)
                        \/ StartCreateThreadFailed(w, s)

\* C13: after a run has ended and Stop() has returned, the worker meets the
\* asserts of Start() (no thread handle, no external flag pointer), and a
\* Start() with the external flag not raised does not throw Abort although
\* the internal flag is still true: it resets both events, rebuilds the flag
\* vector as {internal, external} and, when the thread is created, has
\* cleared the internal flag and bound the external one.
C13_RestartAfterStop ==
    /\ [](\A w \in Workers :
             FullyStopped(w) =>
                 /\ ~m_thread[w]
                 /\ ~m_externalStopSignalFlag[w]
                 /\ m_internalSignalStopFlag[w])
    /\ [][\A w \in Workers :
             (FullyStopped(w) /\ ~externalStopSignalFlag /\ StartCalled(w)) =>
                 /\ startResult'[w] # "Abort"
                 /\ ~m_startedEvent'[w]
                 /\ ~m_stoppedEvent'[w]
                 /\ m_signalStopFlags'[w] = <<"internal", "external">>
                 /\ startResult'[w] = "pending" =>
                        /\ ~m_internalSignalStopFlag'[w]
                        /\ m_externalStopSignalFlag'[w]
                        /\ m_thread'[w]
                        /\ pc'[w] = "ThreadStarting"]_vars

\* C13 witness: worker w runs for the second time on the same synch object
\* (both announcements are its own, the first run voted clean and was
\* joined), its Start() returned true and its internal flag is clear
C13_Witness ==
    \E w \in Workers :
        /\ \A v \in Workers \ {w} : startResult[v] = "none" /\ pc[v] = "none"
        /\ m_threadsStartedCounter = 2
        /\ m_threadCleanStops = <<TRUE>>
        /\ startResult[w] = "true"
        /\ IsRunning(w)
        /\ ~m_internalSignalStopFlag[w]
        /\ ~externalStopSignalFlag

----------------------------------------------------------------------------
\* the thread of worker w completes one poll of
\* BlockUntil_AllThreadsStoppingCleanly in this step
CleanVotesPolled(w) ==
    /\ pc[w] = "BlockUntil_AllThreadsStoppingCleanly"
    /\ m_mutex = w
    /\ m_mutex' # w

\* C14: a poll of BlockUntil_AllThreadsStoppingCleanly returns false whenever
\* a recorded vote is false, also when the vote list is already complete; it
\* returns true only when the vote list is as long as the started counter
\* and every vote is true; otherwise it returns nothing, gives the mutex back
\* and polls again.
C14_CleanVotesPoll ==
    [][\A w \in Workers :
          CleanVotesPolled(w) =>
              /\ HasUncleanStop =>
                     /\ allCleanResult'[w] = "false"
                     /\ pc'[w] = "DoStop"
              /\ allCleanResult'[w] = "false" => HasUncleanStop
              /\ allCleanResult'[w] = "true" =>
                     /\ AllThreadsVoted
                     /\ \A i \in 1..Len(m_threadCleanStops) : m_threadCleanStops[i]
                     /\ pc'[w] = "StopImminent"
              /\ (~HasUncleanStop /\ ~AllThreadsVoted) =>
                     /\ allCleanResult'[w] = "none"
                     /\ pc'[w] = pc[w]
                     /\ m_mutex' = 0
              /\ synchFields' = synchFields]_vars

\* C14 witness: a poll has returned false on a complete vote list
C14_Witness ==
    \E w \in Workers :
        /\ allCleanResult[w] = "false"
        /\ pc[w] = "DoStop"
        /\ doStopCalls[w] = 0
        /\ AllThreadsVoted
        /\ m_threadsStartedCounter = 2
        /\ HasUncleanStop

----------------------------------------------------------------------------
\* worker v takes part in the current run of the synch object: Start() gave
\* it the synch object and created its thread, which has not returned
RunParticipant(v) == m_workerThreadSynch[v] /\ ThreadAlive(v)

\* C15: when BlockUntil_AllThreadsStoppingCleanly returns true to a worker,
\* every participant of the run has submitted its vote, also a participant
\* whose thread announces itself after the peer began to wait.
C15_AllVotedBeforeTrueReturn ==
    [][\A w \in Workers :
          (allCleanResult[w] = "none" /\ allCleanResult'[w] = "true") =>
              \A v \in Workers :
                  RunParticipant(v) => threadStoppingCleanlyCalls[v] = 1]_vars

----------------------------------------------------------------------------
\* C16: with Reset() called only while no participant thread is alive, the
\* vote list is never longer than the started counter and the ready-to-stop
\* counter never exceeds it, the asserts of ThreadStoppingCleanly and
\* ThreadReadyForStop hold whenever a thread evaluates them, and between
\* Resets neither counter decreases and the vote list only grows.
C16_CountersBoundedAndMonotonic ==
    /\ [](/\ Len(m_threadCleanStops) <= m_threadsStartedCounter
          /\ m_threadsReadyToStopCounter <= m_threadsStartedCounter
          /\ \A w \in Workers :
                /\ (pc[w] = "ThreadStoppingCleanly" /\ m_mutex = w)
                       => ThreadStoppingCleanlyAssert
                /\ (pc[w] = "ThreadReadyForStop" /\ m_mutex = w)
                       => ThreadReadyForStopAssert)
    /\ [][\/ Reset
          \/ /\ m_threadsStartedCounter' >= m_threadsStartedCounter
             /\ m_threadsReadyToStopCounter' >= m_threadsReadyToStopCounter
             /\ Len(m_threadCleanStops') >= Len(m_threadCleanStops)
             /\ SubSeq(m_threadCleanStops', 1, Len(m_threadCleanStops))
                    = m_threadCleanStops]_vars

\* C16 witness: the second participant of a run is about to announce ready
\* under the mutex, with both counters at their limits for the assert
C16_Witness ==
    \E w \in Workers :
        /\ pc[w] = "ThreadReadyForStop"
        /\ m_mutex = w
        /\ m_threadsStartedCounter = 2
        /\ Len(m_threadCleanStops) = 2
        /\ m_threadsReadyToStopCounter = 1

----------------------------------------------------------------------------
\* the thread of worker w completes one poll of
\* BlockUntil_AllThreadsReadyToStop in this step
ReadyToStopPolled(w) ==
    /\ pc[w] = "BlockUntil_AllThreadsReadyToStop"
    /\ m_mutex = w
    /\ m_mutex' # w

\* C17: every operation of the synch object, Reset included, reads or writes
\* the started counter, the ready-to-stop counter and the vote list only
\* while it owns the mutex, which it gives back at the end of the operation;
\* a barrier poll that has to sleep has given the mutex back.
C17_FieldsOnlyUnderMutex ==
    [][/\ synchFields' # synchFields => (m_mutex \in Workers /\ m_mutex' = 0)
       /\ \A w \in Workers :
             /\ (allCleanResult'[w] # allCleanResult[w]
                    /\ allCleanResult'[w] # "none") => m_mutex = w
             /\ (pc[w] = "BlockUntil_AllThreadsReadyToStop" /\ pc'[w] = "DoStop")
                    => m_mutex = w
             /\ ((CleanVotesPolled(w) \/ ReadyToStopPolled(w))
                    /\ pc'[w] = pc[w]) => m_mutex' = 0]_vars

----------------------------------------------------------------------------
\* the thread of worker w has left the try block of lines 162-201
PastLoop(w) == pc[w] = "ThreadStoppingCleanly" \/ PastCleanVote(w)

\* the thread of worker w calls DoPeriodicCheck in this step
TickInvoked(w) == \E r \in TickOutcomes : ThreadDoPeriodicCheck(w, r)

\* C18: within one thread run DoStart has returned true before the started
\* event is set; the started event is set before any DoPeriodicCheck; DoStop
\* comes after the last DoPeriodicCheck or the failed DoStart; DoStop has
\* returned before the stopped event is set; and no DoPeriodicCheck is
\* called once the thread has seen a stop flag raised.
C18_BodyEventOrder ==
    /\ [](\A w \in Workers :
             /\ (m_startedEvent[w] \/ pc[w] = "SetStarted")
                    => setupResult[w] = "true"
             /\ (pc[w] = "DoPeriodicCheck" \/ tickResult[w] # "none")
                    => m_startedEvent[w]
             /\ pc[w] = "DoPeriodicCheck"
                    => (~stoppingCleanly[w] /\ doStopCalls[w] = 0)
             /\ (ThreadAlive(w) /\ stoppingCleanly[w]) => PastLoop(w)
             /\ (ThreadAlive(w) /\ doStopCalls[w] > 0)
                    => pc[w] \in {"DoStop", "SetStopped"}
             /\ (m_stoppedEvent[w] /\ startResult[w] # "none")
                    => (doStopCalls[w] = 1 /\ pc[w] = "returned"))
    /\ [][\A w \in Workers :
             /\ TickInvoked(w) =>
                    /\ m_startedEvent[w]
                    /\ ~stoppingCleanly[w]
                    /\ doStopCalls[w] = 0
             /\ (ThreadAlive(w) /\ PastLoop(w)) => (PastLoop(w))'
             /\ doStopCalls'[w] > doStopCalls[w] =>
                    /\ PastLoop(w)
                    /\ setupResult[w] = "true" => m_startedEvent[w]
             /\ (m_stoppedEvent'[w] /\ ~m_stoppedEvent[w]) =>
                    (doStopCalls[w] = 1 /\ pc[w] = "SetStopped")]_vars

\* C18 witness: a run whose DoPeriodicCheck returned false has set both
\* events and run DoStop
C18_Witness ==
    \E w \in Workers :
        /\ setupResult[w] = "true"
        /\ tickResult[w] = "false"
        /\ m_startedEvent[w]
        /\ doStopCalls[w] = 1
        /\ m_stoppedEvent[w]
        /\ pc[w] = "returned"

----------------------------------------------------------------------------
\* no unclean vote is recorded and some announced participant has not voted
AnnouncedVoteMissing ==
    /\ ~HasUncleanStop
    /\ Len(m_threadCleanStops) < m_threadsStartedCounter

\* peer v of a group runs its loop with no stop flag raised
RunningUnasked(v) ==
    /\ m_workerThreadSynch[v]
    /\ Participant(v)
    /\ pc[v] \in {"Sleep", "DoPeriodicCheck"}
    /\ ~TestBoolArray(v)

\* C19: a worker that voted clean calls neither DoStop nor SetEvent on its
\* stopped event while no unclean vote is recorded and an announced
\* participant has not voted; so Stop() on a worker of a group does not
\* return while a peer still runs with no stop flag raised and no unclean
\* vote recorded.
C19_NoTeardownBeforePeersVote ==
    [][\A w \in Workers :
          /\ ((m_workerThreadSynch[w] /\ stoppingCleanly[w] /\ AnnouncedVoteMissing)
                 => /\ ~(\E r \in HookOutcomes : ThreadDoStop(w, r))
                    /\ ~ThreadSetStopped(w))
          /\ ((m_workerThreadSynch[w] /\ stoppingCleanly[w]
                  /\ callerPc[w] = "Stop" /\ StopJoin(w))
                 => \A v \in Workers \ {w} :
                        ~(RunningUnasked(v) /\ ~HasUncleanStop))]_vars

----------------------------------------------------------------------------
\* Start() on worker w has returned false
StartReturnedFalse(w) == callerPc[w] = "idle" /\ startResult[w] = "false"

\* C20: when Start() returns false it has already joined the thread: the
\* thread handle is null, the external flag pointer is cleared, the internal
\* flag is true, the stopped event is set (the started event is not) and
\* DoStop has been called once.
C20_StartFalseHasJoined ==
    \A w \in Workers :
        StartReturnedFalse(w) =>
            /\ ~m_thread[w]
            /\ ~m_externalStopSignalFlag[w]
            /\ m_internalSignalStopFlag[w]
            /\ m_stoppedEvent[w]
            /\ ~m_startedEvent[w]
            /\ doStopCalls[w] = 1
            /\ pc[w] = "returned"

\* C20 witness: Start() has returned false after DoStart returned false
C20_Witness ==
    \E w \in Workers :
        /\ StartReturnedFalse(w)
        /\ setupResult[w] = "false"
        /\ ~m_thread[w]
        /\ doStopCalls[w] = 1

====
